---- MODULE Spec2Model ----
(***************************************************************************)
(* Storage and state management of the SM (subgraph matching) Problem and  *)
(* of the Dyn dynamic-graph wrapper.                                       *)
(*                                                                         *)
(*   SpecProblem : Problem / DataSlice lifecycle (sm_problem.cuh)          *)
(*   SpecDyn     : Dyn wrapper, with and without the store (dyn.cuh)       *)
(***************************************************************************)
EXTENDS Integers, Sequences, FiniteSets, Bags, TLC

\* ------------------------------------------------------------------ bounds
MaxGpus  == 2      \* largest num_gpus explored
MaxNodes == 2      \* largest node count of a graph / subgraph
MaxVal   == 1      \* array elements range over 0..MaxVal
MaxCalls == 4      \* calls and graph changes one Problem goes through
MaxFaults == 1     \* suboperations that fail in one run

Values  == 0..MaxVal
NodeCnt == 1..MaxNodes
Devices == 0..(MaxGpus - 1)

\* ------------------------------------------------------------- util types
\* util::Location is a bit set; a location is the set of residencies.
HOST         == {"H"}
DEVICE       == {"D"}
LOCATION_ALL == {"H", "D"}
Targets      == {HOST, DEVICE, LOCATION_ALL}

cudaSuccess == "cudaSuccess"
ErrCodes    == {"cudaErrorMemoryAllocation", "cudaErrorInvalidDevice",
                "cudaErrorInvalidValue", "cudaErrorUnknown"}

\* the status a suboperation reports when it fails
ErrorOf(name) ==
    CASE name = "SetDevice"             -> "cudaErrorInvalidDevice"
      [] name = "subgraphs.Allocate"    -> "cudaErrorMemoryAllocation"
      [] name = "data_slices.Allocate"  -> "cudaErrorMemoryAllocation"
      [] name = "subgraphs.EnsureSize_" -> "cudaErrorMemoryAllocation"
      [] name = "BaseProblem::Init"     -> "cudaErrorMemoryAllocation"
      [] name = "BaseDataSlice::Init"   -> "cudaErrorMemoryAllocation"
      [] name = "subgraphs.Move"        -> "cudaErrorInvalidValue"
      [] name = "data_slices.Move"      -> "cudaErrorInvalidValue"
      [] name = "sub_graph.Move"        -> "cudaErrorInvalidValue"
      [] OTHER                          -> "cudaErrorUnknown"

\* the null data_slices pointer (an array of no slices)
NULL == << >>

\* whether delete[] data_slices ran, and the slices whose shadow was live
NotDeleted == [done |-> FALSE, shadows |-> {}]

\* An injected fault f: the f-th suboperation a call attempts fails; 0
\* injects nothing.
Faults(steps, sofar) == IF sofar < MaxFaults THEN 0..steps ELSE {0}

Fill(n, v) == [k \in 1..n |-> v]
Zeros(n)   == Fill(n, 0)

\* ----------------------------------------------------------- util::Array1D
\* size  : number of elements
\* h     : host residency, "none" | "alloc" (owned) | "set" (external pointer)
\* d     : device residency, "none" | "alloc"
\* hv,dv : contents at host / device (<<>> when not resident; when h = "set"
\*         the host contents live in the caller's buffer h_subgraphs)
EmptyArray == [size |-> 0, h |-> "none", d |-> "none", hv |-> <<>>, dv |-> <<>>]

\* Array1D::Allocate(size, target); g is the value found in the fresh memory
ArrayAllocate(a, n, target, g) ==
    [size |-> n,
     h    |-> IF "H" \in target THEN "alloc" ELSE a.h,
     hv   |-> IF "H" \in target THEN Fill(n, g) ELSE a.hv,
     d    |-> IF "D" \in target THEN "alloc" ELSE a.d,
     dv   |-> IF "D" \in target THEN Fill(n, g) ELSE a.dv]

\* Array1D::Release(target): frees what is allocated at target, forgets a
\* pointer that was only set, does nothing at a residency already released
ArrayRelease(a, target) ==
    LET h1 == IF "H" \in target THEN "none" ELSE a.h
        d1 == IF "D" \in target THEN "none" ELSE a.d
    IN  [size |-> IF h1 = "none" /\ d1 = "none" THEN 0 ELSE a.size,
         h    |-> h1,
         hv   |-> IF "H" \in target THEN <<>> ELSE a.hv,
         d    |-> d1,
         dv   |-> IF "D" \in target THEN <<>> ELSE a.dv]

\* Array1D::Release(target) has something to give up; with nothing to give
\* up it returns cudaSuccess without calling into the runtime
ArrayHolds(a, target) ==
    ("H" \in target /\ a.h # "none") \/ ("D" \in target /\ a.d # "none")

\* number of blocks Array1D::Release(target) hands to delete[] / cudaFree
ArrayFrees(a, target) ==
    (IF "H" \in target /\ a.h = "alloc" THEN 1 ELSE 0) +
    (IF "D" \in target /\ a.d = "alloc" THEN 1 ELSE 0)

\* Array1D::EnsureSize_(size, target): capacity at target is at least size
\* afterwards; an array already large enough and resident there is kept
ArrayEnsureSize(a, n, target, g) ==
    LET needH == "H" \in target /\ (a.h = "none" \/ a.size < n)
        needD == "D" \in target /\ (a.d = "none" \/ a.size < n)
        size1 == IF a.size < n THEN n ELSE a.size
    IN  IF ~needH /\ ~needD THEN a
        ELSE [size |-> size1,
              h    |-> IF needH THEN "alloc" ELSE a.h,
              hv   |-> IF needH THEN Fill(size1, g) ELSE a.hv,
              d    |-> IF needD THEN "alloc" ELSE a.d,
              dv   |-> IF needD THEN Fill(size1, g) ELSE a.dv]

\* the first n elements of s overwritten by those of src
Overwrite(s, src, n) ==
    [k \in 1..Len(s) |-> IF k <= n /\ k <= Len(src) THEN src[k] ELSE s[k]]

\* ------------------------------------------------------ DataSlice (struct)
\* gpu_idx, sub_graph and stream are the DataSliceBase members; sub = 0 is
\* a null sub_graph pointer.
NewDataSlice == [gpu_idx |-> 0, sub |-> 0, stream |-> FALSE,
                 subgraphs |-> EmptyArray]

\* one util::Array1D<SizeT, DataSlice>: h = host element data_slices[i][0],
\* d = its device-resident shadow
NewSliceArray == [h |-> "none", d |-> "none", elem |-> NewDataSlice]

VARIABLES
    num_gpus,       \* ProblemBase::num_gpus
    gpu_idx,        \* ProblemBase::gpu_idx[], accelerator of each slice
    org_nodes,      \* node count of the graph the caller works on
    org_graph,      \* ProblemBase::org_graph is set (BaseProblem::Init ran)
    sub_graphs,     \* ProblemBase::sub_graphs[], [nodes, on_device]
    data_slices,    \* Problem::data_slices, NULL or one Array1D per gpu
    active_device,  \* the CUDA runtime's current device
    pending,        \* per slice: length of the zero fill queued on its stream
    h_subgraphs,    \* contents of the caller's host output buffer
    retval,         \* status returned by the last call
    last_call,      \* the last call and its arguments
    log,            \* suboperations the last call attempted, with status
    freed,          \* number of blocks the last call freed
    stray,          \* device operations the last call ran for a slice while
                    \* another accelerator was the current device
    deleted,        \* slices whose shadow was live when data_slices was freed
    crashed,        \* the process died in undefined behaviour
    calls,          \* number of calls made so far
    junk,           \* what memory holds before it is first written
    faults          \* number of suboperations that failed so far

pvars == <<num_gpus, gpu_idx, org_nodes, org_graph, sub_graphs, data_slices,
           active_device, pending, h_subgraphs, retval, last_call, log,
           freed, stray, deleted, crashed, calls, junk, faults>>

Gpus == 1..num_gpus

\* ------------------------------------------------- a call under execution
\* The state a handler threads through its suboperations.  n counts the
\* suboperations attempted, rv is the handler's local retval.
Enter ==
    [ds |-> data_slices, dev |-> active_device, pend |-> pending,
     gr |-> sub_graphs, og |-> org_graph, buf |-> h_subgraphs,
     rv |-> cudaSuccess, n |-> 0, log |-> <<>>, nfree |-> 0, del |-> NotDeleted,
     stray |-> {}, ub |-> FALSE, frame |-> "call"]

\* the handler has returned (GUARD_CU) or has left defined behaviour
Failed(m) == m.rv # cudaSuccess \/ m.ub

\* GUARD_CU: the handler goes on with rest only if nothing has failed
Guard(m, rest(_)) == IF Failed(m) THEN m ELSE rest(m)

\* One suboperation returning a status: it fails when it is the f-th
\* attempt or when its precondition pre does not hold, and otherwise has
\* the effect ok.
Sub(m, f, name, i, pre, ok) ==
    LET st == IF m.n + 1 = f \/ ~pre THEN ErrorOf(name) ELSE cudaSuccess
        e  == [op |-> name, gpu |-> i, st |-> st, in |-> m.frame]
    IN  IF st # cudaSuccess
        THEN [m  EXCEPT !.n = m.n + 1, !.rv = st, !.log = Append(m.log, e)]
        ELSE [ok EXCEPT !.n = m.n + 1, !.rv = st, !.log = Append(m.log, e)]

\* Suboperation name works on device memory of slice i when on_device: the
\* CUDA runtime applies it to the device that is current
Touch(m, i, name, on_device) ==
    IF ~on_device \/ m.dev = gpu_idx[i] THEN m
    ELSE [m EXCEPT !.stray = @ \cup {[op |-> name, gpu |-> i, dev |-> m.dev]}]

\* the queued zero fill of slice i has run
Complete(m, i) ==
    LET a == m.ds[i].elem.subgraphs
    IN  IF m.pend[i] = 0 THEN m
        ELSE [m EXCEPT !.pend[i] = 0,
                       !.ds[i].elem.subgraphs.dv =
                           IF a.d = "alloc" THEN Overwrite(a.dv, Zeros(m.pend[i]), m.pend[i])
                           ELSE a.dv]

RECURSIVE CompleteOn(_, _, _)
\* all work queued on device dev has run (slices i..num_gpus)
CompleteOn(m, dev, i) ==
    IF i > num_gpus \/ m.ds = NULL THEN m
    ELSE CompleteOn(IF m.ds[i].elem.gpu_idx = dev THEN Complete(m, i) ELSE m,
                    dev, i + 1)

\* util::SetDevice(idx)
SetDevice(m, f, i, idx) ==
    Sub(m, f, "SetDevice", i, idx \in Devices, [m EXCEPT !.dev = idx])

\* Array1D::Release(target) on data_slices[i][0].subgraphs; cudaFree waits
\* for the work queued on the device
SubgraphsRelease(m, f, i, target) ==
    LET a  == m.ds[i].elem.subgraphs
        m1 == IF "D" \in target /\ a.d = "alloc" THEN Complete(m, i) ELSE m
    IN  Sub(m, IF ArrayHolds(a, target) THEN f ELSE 0,
            "subgraphs.Release", i, TRUE,
            Touch([m1 EXCEPT !.ds[i].elem.subgraphs = ArrayRelease(a, target),
                             !.nfree = @ + ArrayFrees(a, target)],
                  i, "subgraphs.Release", "D" \in target /\ a.d = "alloc"))

\* DataSliceBase::Release(target): gives up the slice's stream with its
\* device resources
BaseDataSliceRelease(m, f, i, target) ==
    Sub(m, IF "D" \in target /\ m.ds[i].elem.stream THEN f ELSE 0,
        "BaseDataSlice::Release", i, TRUE,
        IF "D" \in target THEN [m EXCEPT !.ds[i].elem.stream = FALSE] ELSE m)

\* DataSlice::Release(target) on data_slices[i][0]
DataSliceRelease(m, f, i, target) ==
    Guard(IF "D" \in target
          THEN SetDevice(m, f, i, m.ds[i].elem.gpu_idx) ELSE m,
          LAMBDA m1 : Guard(SubgraphsRelease(m1, f, i, target),
          LAMBDA m2 : BaseDataSliceRelease(m2, f, i, target)))

\* DataSlice::~DataSlice(): Release() with its status dropped
DataSliceDtor(m, f, i) ==
    LET r == DataSliceRelease([m EXCEPT !.frame = "dtor"], f, i, LOCATION_ALL)
    IN  [r EXCEPT !.rv = m.rv, !.frame = m.frame,
                  !.ds[i].elem = NewDataSlice, !.pend[i] = 0]

\* DataSliceBase::Init(sub_graph, num_gpus, gpu_idx, target, flag)
BaseDataSliceInit(m, f, i, idx, target) ==
    Sub(m, f, "BaseDataSlice::Init", i, TRUE,
        [m EXCEPT !.ds[i].elem.gpu_idx = idx,
                  !.ds[i].elem.sub     = i,
                  !.ds[i].elem.stream  = ("D" \in target),
                  !.dev = IF "D" \in target THEN idx ELSE m.dev])

\* subgraphs.Allocate(sub_graph.nodes, target)
SubgraphsAllocate(m, f, i, target, g) ==
    Sub(m, f, "subgraphs.Allocate", i, TRUE,
        Touch([m EXCEPT !.ds[i].elem.subgraphs =
                            ArrayAllocate(@, m.gr[i].nodes, target, g),
                        !.nfree = @ + ArrayFrees(m.ds[i].elem.subgraphs, target)],
              i, "subgraphs.Allocate", "D" \in target))

\* sub_graph.CsrT::Move(util::HOST, target, this->stream)
SubGraphMove(m, f, i) ==
    Sub(m, f, "sub_graph.Move", i, TRUE,
        Touch([m EXCEPT !.gr[i].on_device = TRUE], i, "sub_graph.Move", TRUE))

\* DataSlice::Init(sub_graph, num_gpus, gpu_idx, target, flag) on
\* data_slices[i][0]; g is what fresh memory holds
DataSliceInit(m, f, i, idx, target, g) ==
    Guard(BaseDataSliceInit(m, f, i, idx, target),
          LAMBDA m1 : Guard(SubgraphsAllocate(m1, f, i, target, g),
          LAMBDA m2 : IF "D" \notin target THEN m2
                      ELSE SubGraphMove(m2, f, i)))

\* subgraphs.ForEach(x = 0, num_nodes, util::HOST, stream): the fill is
\* never queued for the device
SubgraphsFill_HostOnly(m, i, n, target) ==
    LET a == m.ds[i].elem.subgraphs
    IN  IF "H" \notin target THEN m
        ELSE IF Len(IF a.h = "set" THEN m.buf ELSE a.hv) < n
             THEN [m EXCEPT !.ub = TRUE]
        ELSE IF a.h = "set"
             THEN [m EXCEPT !.buf = Overwrite(@, Zeros(n), n)]
             ELSE [m EXCEPT !.ds[i].elem.subgraphs.hv =
                                 Overwrite(@, Zeros(n), n)]

\* subgraphs.ForEach(x = 0, num_nodes, target, stream): the host part runs
\* in the call, the device part is queued on the slice's stream behind a
\* fill that is still queued there; a fill of more entries than the block
\* at a residency holds writes past its end
SubgraphsFill(m, i, n, target) ==
    LET a  == m.ds[i].elem.subgraphs
        m1 == IF "H" \notin target THEN m
              ELSE IF a.h = "set"
                   THEN [m EXCEPT !.buf = Overwrite(@, Zeros(n), n)]
                   ELSE [m EXCEPT !.ds[i].elem.subgraphs.hv =
                                       Overwrite(@, Zeros(n), n)]
    IN  IF \/ "H" \in target /\ Len(IF a.h = "set" THEN m.buf ELSE a.hv) < n
           \/ "D" \in target /\ Len(a.dv) < n
        THEN [m EXCEPT !.ub = TRUE]
        ELSE IF "D" \in target
        THEN Touch([m1 EXCEPT !.pend[i] = IF @ > n THEN @ ELSE n],
                   i, "subgraphs.ForEach", TRUE)
        ELSE m1

\* subgraphs.EnsureSize_(num_nodes, target) that reallocates the array to
\* num_nodes entries whenever its length differs
SubgraphsEnsureSize_Exact(m, f, i, target, g) ==
    LET a == m.ds[i].elem.subgraphs
        n == m.gr[m.ds[i].elem.sub].nodes
    IN  Sub(m, f, "subgraphs.EnsureSize_", i, TRUE,
            [m EXCEPT !.ds[i].elem.subgraphs =
                          IF a.size = n THEN ArrayEnsureSize(a, n, target, g)
                          ELSE ArrayAllocate(a, n, target, g)])

\* subgraphs.EnsureSize_(num_nodes, target)
SubgraphsEnsureSize(m, f, i, target, g) ==
    LET a == m.ds[i].elem.subgraphs
        n == m.gr[m.ds[i].elem.sub].nodes
    IN  Sub(m, f, "subgraphs.EnsureSize_", i, TRUE,
            Touch([m EXCEPT !.ds[i].elem.subgraphs =
                                ArrayEnsureSize(a, n, target, g)],
                  i, "subgraphs.EnsureSize_",
                  "D" \in target /\ (a.d = "none" \/ a.size < n)))

\* DataSlice::Reset(target) that fills only an array EnsureSize_ had to
\* allocate
DataSliceReset_FillWhenGrown(m, f, i, target, g) ==
    Guard(SubgraphsEnsureSize(m, f, i, target, g),
          LAMBDA m1 : Sub(m1, f, "subgraphs.ForEach", i, TRUE,
                          IF m1.ds[i].elem.subgraphs = m.ds[i].elem.subgraphs
                          THEN m1
                          ELSE SubgraphsFill(m1, i,
                                   m1.gr[m1.ds[i].elem.sub].nodes, target)))

\* DataSlice::Reset(target) on data_slices[i][0]
DataSliceReset(m, f, i, target, g) ==
    Guard(SubgraphsEnsureSize(m, f, i, target, g),
          LAMBDA m1 : Sub(m1, f, "subgraphs.ForEach", i, TRUE,
                          SubgraphsFill(m1, i,
                              m1.gr[m1.ds[i].elem.sub].nodes, target)))

\* ---------------------------------------------------------------- Problem
\* data_slices[i].Allocate(1, target | util::HOST)
SliceArrayAllocate(m, f, i, target) ==
    Sub(m, f, "data_slices.Allocate", i, TRUE,
        Touch([m EXCEPT !.ds[i] = [h |-> "alloc",
                                   d |-> IF "D" \in target THEN "alloc"
                                         ELSE "none",
                                   elem |-> NewDataSlice]],
              i, "data_slices.Allocate", "D" \in target))

RECURSIVE InitLoop(_, _, _, _, _)
\* for (gpu = 0; gpu < num_gpus; gpu++) of Problem::Init, from slice gpu on
InitLoop(m, f, target, g, gpu) ==
    IF gpu > num_gpus THEN m
    ELSE Guard(IF "D" \in target
               THEN SetDevice(m, f, gpu, gpu_idx[gpu]) ELSE m,
         LAMBDA m1 : Guard(SliceArrayAllocate(m1, f, gpu, target),
         LAMBDA m2 : Guard(DataSliceInit(m2, f, gpu, gpu_idx[gpu], target, g),
         LAMBDA m3 : InitLoop(m3, f, target, g, gpu + 1))))

\* ProblemBase::Init(graph, target): org_graph is set and the partitioner
\* hands out one subgraph per accelerator, part[i] nodes in the i-th
BaseProblemInit(m, f, part) ==
    Sub(m, f, "BaseProblem::Init", 0, TRUE,
        [m EXCEPT !.og = TRUE,
                  !.gr = [i \in Gpus |-> [nodes |-> part[i],
                                          on_device |-> FALSE]]])

\* Problem::Init(graph, target)
ProblemInit(m, f, target, part, g) ==
    Guard(BaseProblemInit(m, f, part),
          LAMBDA m1 : InitLoop([m1 EXCEPT !.ds   = [i \in Gpus |-> NewSliceArray],
                                          !.pend = [i \in Gpus |-> 0]],
                               f, target, g, 1))

\* data_slices[i].Move(util::HOST, target): the host element is copied to
\* its device shadow by a blocking transfer on the default stream, which
\* does not wait for the slice's own stream
SliceArrayMove(m, f, i, target) ==
    Sub(m, f, "data_slices.Move", i, m.ds[i].h = "alloc",
        IF "D" \notin target THEN m
        ELSE Touch([m EXCEPT !.ds[i].d = "alloc"], i, "data_slices.Move", TRUE))

RECURSIVE ResetLoop(_, _, _, _, _)
\* for (gpu = 0; gpu < num_gpus; ++gpu) of Problem::Reset, from slice gpu on
ResetLoop(m, f, target, g, gpu) ==
    IF gpu > num_gpus THEN m
    ELSE Guard(IF "D" \in target
               THEN SetDevice(m, f, gpu, gpu_idx[gpu]) ELSE m,
         LAMBDA m1 : Guard(IF \/ m1.ds = NULL
                              \/ m1.ds[gpu].h = "none"
                              \/ m1.ds[gpu].elem.sub = 0
                           THEN [m1 EXCEPT !.ub = TRUE]
                           ELSE DataSliceReset(m1, f, gpu, target, g),
         LAMBDA m2 : Guard(SliceArrayMove(m2, f, gpu, target),
         LAMBDA m3 : ResetLoop(m3, f, target, g, gpu + 1))))

\* cudaDeviceSynchronize(): waits for the work queued on the current device
DeviceSynchronize(m, f) ==
    Sub(m, f, "cudaDeviceSynchronize", 0, TRUE, CompleteOn(m, m.dev, 1))

\* Problem::Reset(target) without the GUARD_CU on the loop body: the
\* synchronisation is attempted whatever the loop returned
ProblemReset_NoGuard(m, f, target, g) ==
    DeviceSynchronize(ResetLoop(m, f, target, g, 1), f)

\* Problem::Reset(target)
ProblemReset(m, f, target, g) ==
    Guard(ResetLoop(m, f, target, g, 1),
          LAMBDA m1 : DeviceSynchronize(m1, f))

\* data_slice.subgraphs.SetPointer(h_subgraphs, nodes, util::HOST): the
\* array's host side becomes the caller's buffer; a host block the array
\* owned is given back
SubgraphsSetPointer(m, f, nodes) ==
    LET a == m.ds[1].elem.subgraphs
    IN  Sub(m, f, "subgraphs.SetPointer", 1, TRUE,
            [m EXCEPT !.ds[1].elem.subgraphs =
                          [a EXCEPT !.h = "set", !.hv = <<>>,
                                    !.size = IF a.d = "none" THEN nodes ELSE @],
                      !.nfree = @ + ArrayFrees(a, HOST)])

\* data_slice.subgraphs.Move(util::DEVICE, util::HOST): blocking transfer
\* of the device array into the array's host side, which is the caller's
\* buffer when the pointer was set to it
SubgraphsMoveToHost(m, f) ==
    LET a == m.ds[1].elem.subgraphs
    IN  Sub(m, f, "subgraphs.Move", 1, a.d = "alloc",
            IF a.h = "set"
            THEN [m EXCEPT !.buf = Overwrite(@, a.dv, a.size)]
            ELSE [m EXCEPT !.ds[1].elem.subgraphs.h  = "alloc",
                           !.ds[1].elem.subgraphs.hv = a.dv])

\* data_slice.subgraphs.ForEach(h_subgraphs, h_x = d_x, nodes, util::HOST):
\* element k of the array's host side is stored into h_subgraphs[k]
SubgraphsCopyOut(m, f, nodes) ==
    LET a == m.ds[1].elem.subgraphs
    IN  Sub(m, f, "subgraphs.ForEach", 1, TRUE,
            IF a.h = "set" THEN m
            ELSE [m EXCEPT !.buf = Overwrite(@, a.hv, nodes)])

\* Problem::Extract(h_subgraphs, target) whose device branch moves the
\* array without pointing its host side at h_subgraphs
ProblemExtract_NoSetPointer(m, f, target) ==
    IF ~m.og THEN [m EXCEPT !.ub = TRUE]
    ELSE IF num_gpus # 1 THEN m
    ELSE IF m.ds = NULL THEN [m EXCEPT !.ub = TRUE]
    ELSE IF target = DEVICE
    THEN Guard(SetDevice(m, f, 1, gpu_idx[1]),
               LAMBDA m1 : IF m1.ds[1].h = "none" THEN [m1 EXCEPT !.ub = TRUE]
                           ELSE SubgraphsMoveToHost(m1, f))
    ELSE IF target = HOST
    THEN IF m.ds[1].h = "none" \/ m.ds[1].elem.subgraphs.h = "none"
         THEN [m EXCEPT !.ub = TRUE]
         ELSE SubgraphsCopyOut(m, f, org_nodes)
    ELSE m

\* Problem::Extract(h_subgraphs, target)
ProblemExtract(m, f, target) ==
    IF ~m.og THEN [m EXCEPT !.ub = TRUE]
    ELSE IF num_gpus # 1 THEN m
    ELSE IF m.ds = NULL THEN [m EXCEPT !.ub = TRUE]
    ELSE IF target = DEVICE
    THEN Guard(SetDevice(m, f, 1, gpu_idx[1]),
               LAMBDA m1 : IF m1.ds[1].h = "none" THEN [m1 EXCEPT !.ub = TRUE]
                           ELSE Guard(SubgraphsSetPointer(m1, f, org_nodes),
                                LAMBDA m2 : SubgraphsMoveToHost(m2, f)))
    ELSE IF target = HOST
    THEN IF m.ds[1].h = "none" \/ m.ds[1].elem.subgraphs.h = "none"
         THEN [m EXCEPT !.ub = TRUE]
         ELSE SubgraphsCopyOut(m, f, org_nodes)
    ELSE m

\* Array1D<DataSlice>::Release(target), device part: the shadow of
\* data_slices[i] is freed
FreeShadow(m, i, target) ==
    IF "D" \in target /\ m.ds[i].d = "alloc"
    THEN Touch([m EXCEPT !.ds[i].d = "none", !.nfree = @ + 1],
               i, "data_slices.Release", TRUE)
    ELSE m

\* data_slices[i].Release(target): Array1D<DataSlice>::Release; giving back
\* the host block destroys the DataSlice in it
SliceArrayRelease(m, f, i, target) ==
    Guard(Sub(m, IF ArrayHolds(m.ds[i], target) THEN f ELSE 0,
              "data_slices.Release", i, TRUE, m),
          LAMBDA m0 : FreeShadow(
              IF "H" \in target /\ m0.ds[i].h = "alloc"
              THEN [DataSliceDtor(m0, f, i) EXCEPT !.ds[i].h = "none",
                                                  !.nfree = @ + 1]
              ELSE m0, i, target))

RECURSIVE ReleaseLoop(_, _, _, _)
\* for (i = 0; i < num_gpus; i++) of Problem::Release, from slice i on
ReleaseLoop(m, f, target, i) ==
    IF i > num_gpus THEN m
    ELSE Guard(SliceArrayRelease(m, f, i, target),
               LAMBDA m1 : ReleaseLoop(m1, f, target, i + 1))

\* ProblemBase::Release(target)
BaseProblemRelease(m, f, target) ==
    Sub(m, f, "BaseProblem::Release", 0, TRUE,
        IF "D" \in target
        THEN [m EXCEPT !.gr = [i \in Gpus |-> [@[i] EXCEPT !.on_device = FALSE]]]
        ELSE m)

\* the test guarding delete[] data_slices
MayDelete(ds, target) ==
    "H" \in target /\ ds[1].d = "none"

\* delete[] data_slices; data_slices = NULL, when the test allows it
DeleteSlices(m, target) ==
    IF MayDelete(m.ds, target)
    THEN [m EXCEPT !.ds = NULL,
                   !.del = [done |-> TRUE, shadows |->
                               {i \in Gpus : m.ds[i].d = "alloc"}],
                   !.pend = [i \in Gpus |-> 0],
                   !.nfree = @ + 1]
    ELSE m

\* Problem::Release(target) without the early return on data_slices == NULL
ProblemRelease_NoNullCheck(m, f, target) ==
    IF m.ds = NULL THEN BaseProblemRelease(m, f, target)
    ELSE Guard(ReleaseLoop(m, f, target, 1),
               LAMBDA m1 : BaseProblemRelease(DeleteSlices(m1, target),
                                              f, target))

\* Problem::Release(target)
ProblemRelease(m, f, target) ==
    IF m.ds = NULL THEN m
    ELSE Guard(ReleaseLoop(m, f, target, 1),
               LAMBDA m1 : BaseProblemRelease(DeleteSlices(m1, target),
                                              f, target))

\* ------------------------------------------------------ Dyn wrapper state
VARIABLES
    is_directed,    \* DynamicGraphBase::is_directed
    dynamicGraph,   \* the mutable structure: a bag of <<src, dst, value>>
    dyn_nodes,      \* the mutable structure's node count
    edges_dev,      \* the caller's edge-pair buffer is device-resident
    vals_dev,       \* the caller's value buffer is device-resident
    given,          \* bag of [e, sym]: edges handed to InsertEdgesBatch
    csr_in,         \* the StaticGraph handed to the last FromCsr, if any
    csr_out,        \* the caller's StaticGraph handed to ToCsr
    store,          \* the specialization: TRUE with the store, FALSE without
    dyn_call,       \* the last Dyn call and what its suboperations reported
    dyn_retval,     \* status returned by the last Dyn call
    dyn_calls,      \* number of Dyn calls made so far
    dyn_faults      \* number of Dyn suboperations that failed so far

dvars == <<is_directed, dynamicGraph, dyn_nodes, edges_dev, vals_dev, given,
           csr_in, csr_out, store, dyn_call, dyn_retval, dyn_calls,
           dyn_faults>>

vars == <<pvars, dvars>>

\* ------------------------------------------------------- Problem actions
\* the state a call leaves behind; a call that left defined behaviour
\* either kills the process or returns whatever was in retval's place
Return(m, f, op, target, i) ==
    /\ faults' = IF f > 0 /\ f <= m.n THEN faults + 1 ELSE faults
    /\ data_slices'   = m.ds
    /\ active_device' = m.dev
    /\ pending'       = m.pend
    /\ sub_graphs'    = m.gr
    /\ org_graph'     = m.og
    /\ h_subgraphs'   = m.buf
    /\ log'           = m.log
    /\ freed'         = m.nfree
    /\ stray'         = m.stray
    /\ deleted'       = m.del
    /\ last_call'     = [op |-> op, target |-> target, gpu |-> i, ub |-> m.ub]
    /\ IF m.ub
       THEN \/ crashed' = TRUE  /\ retval' = retval
            \/ crashed' = FALSE /\ retval' \in {cudaSuccess} \cup ErrCodes
       ELSE crashed' = FALSE /\ retval' = m.rv
    /\ calls' = calls + 1
    /\ UNCHANGED <<num_gpus, gpu_idx, org_nodes, junk>>
    /\ UNCHANGED dvars

\* a call can be made: the process lives, and the run is not over
CanCall == ~crashed /\ calls < MaxCalls

\* the subgraphs the partitioner hands out keep the graph's vertex set
Partitions == {[i \in Gpus |-> org_nodes]}

Init(target) ==
    /\ CanCall
    /\ \E f \in Faults(1 + 5 * num_gpus, faults), part \in Partitions, g \in {junk} :
          Return(ProblemInit(Enter, f, target, part, g), f,
                 "Init", target, 0)

Reset(target) ==
    /\ CanCall
    /\ \E f \in Faults(1 + 4 * num_gpus, faults), g \in {junk} :
          Return(ProblemReset(Enter, f, target, g), f,
                 "Reset", target, 0)

Extract(target) ==
    /\ CanCall
    /\ \E f \in Faults(3, faults) :
          Return(ProblemExtract(Enter, f, target), f,
                 "Extract", target, 0)

Release(target) ==
    /\ CanCall
    /\ \E f \in Faults(1 + 4 * num_gpus, faults) :
          Return(ProblemRelease(Enter, f, target), f,
                 "Release", target, 0)

\* data_slices[i][0].Release(target), called on a slice that exists
SliceRelease(i, target) ==
    /\ CanCall
    /\ data_slices # NULL
    /\ data_slices[i].h = "alloc"
    /\ \E f \in Faults(3, faults) :
          Return(DataSliceRelease(Enter, f, i, target), f,
                 "DataSlice::Release", target, i)

\* The enactor runs the algorithm: kernels on every slice's stream write
\* results into subgraphs, and the enactor waits for them.
RunAlgorithm ==
    /\ ~crashed
    /\ data_slices # NULL
    /\ \A i \in Gpus : /\ data_slices[i].h = "alloc"
                       /\ data_slices[i].elem.subgraphs.d = "alloc"
    /\ \E res \in [1..MaxNodes -> Values] :
          data_slices' = [i \in Gpus |->
              [data_slices[i] EXCEPT !.elem.subgraphs.dv =
                   [k \in 1..Len(@) |-> res[k]]]]
    /\ pending' = [i \in Gpus |-> 0]
    /\ last_call' = [op |-> "Run", target |-> DEVICE, gpu |-> 0, ub |-> FALSE]
    /\ retval' = cudaSuccess
    /\ log' = <<>>
    /\ freed' = 0
    /\ stray' = {}
    /\ deleted' = NotDeleted
    /\ UNCHANGED <<num_gpus, gpu_idx, org_nodes, org_graph, sub_graphs,
                   active_device, h_subgraphs, crashed, calls, junk, faults>>
    /\ UNCHANGED dvars

\* The graph changes between two runs: the subgraph of every slice, whose
\* node count DataSlice::Reset reads on each call, now has n nodes.
GraphResized(n) ==
    /\ CanCall
    /\ org_graph
    /\ \E i \in Gpus : sub_graphs[i].nodes # n
    /\ sub_graphs' = [i \in Gpus |-> [sub_graphs[i] EXCEPT !.nodes = n]]
    /\ last_call' = [op |-> "Resize", target |-> HOST, gpu |-> 0, ub |-> FALSE]
    /\ retval' = cudaSuccess
    /\ log' = <<>>
    /\ freed' = 0
    /\ stray' = {}
    /\ deleted' = NotDeleted
    /\ calls' = calls + 1
    /\ UNCHANGED <<num_gpus, gpu_idx, org_nodes, org_graph, data_slices,
                   active_device, pending, h_subgraphs, crashed, junk, faults>>
    /\ UNCHANGED dvars

\* the device gets to the zero fill queued on slice i's stream
StreamProgress(i) ==
    /\ ~crashed
    /\ data_slices # NULL
    /\ pending[i] > 0
    /\ LET m == Complete(Enter, i)
       IN  data_slices' = m.ds /\ pending' = m.pend
    /\ last_call' = [op |-> "Progress", target |-> DEVICE, gpu |-> i, ub |-> FALSE]
    /\ UNCHANGED <<num_gpus, gpu_idx, org_nodes, org_graph, sub_graphs,
                   active_device, h_subgraphs, retval, log,
                   freed, stray, deleted, crashed, calls, junk, faults>>
    /\ UNCHANGED dvars

\* Problem(parameters, flag): data_slices(NULL); the accelerators come with
\* the parameters, the graph and the output buffer with the caller
NewProblem ==
    /\ num_gpus \in 1..MaxGpus
    /\ gpu_idx = [i \in 1..num_gpus |-> MaxGpus - i]
    /\ org_nodes \in NodeCnt
    /\ org_graph = FALSE
    /\ sub_graphs = [i \in 1..num_gpus |-> [nodes |-> 0, on_device |-> FALSE]]
    /\ data_slices = NULL
    /\ active_device = 0
    /\ pending = [i \in 1..num_gpus |-> 0]
    /\ junk \in Values
    /\ h_subgraphs = Fill(org_nodes, junk)
    /\ retval = cudaSuccess
    /\ last_call = [op |-> "new", target |-> HOST, gpu |-> 0, ub |-> FALSE]
    /\ log = <<>>
    /\ freed = 0
    /\ stray = {}
    /\ deleted = NotDeleted
    /\ crashed = FALSE
    /\ calls = 0
    /\ faults = 0

NextProblem ==
    \/ \E target \in Targets : Init(target)
    \/ \E target \in Targets : Reset(target)
    \/ \E target \in Targets : Extract(target)
    \/ \E target \in Targets : Release(target)
    \/ \E i \in Gpus, target \in Targets : SliceRelease(i, target)
    \/ RunAlgorithm
    \/ \E n \in NodeCnt : GraphResized(n)
    \/ \E i \in Gpus : StreamProgress(i)

\* ------------------------------------------------------------ Dyn wrapper
MaxVertex   == 2   \* vertices are 0..MaxVertex-1
MaxEdgeVal  == 2   \* edge values are 1..MaxEdgeVal
MaxBatch    == 1   \* largest batchSize
MaxDynCalls == 3   \* calls made on one Dyn
MaxCsrEdges == 2   \* edges of a StaticGraph handed to FromCsr

Vertices == 0..(MaxVertex - 1)
EdgeVals == 1..MaxEdgeVal
Triples  == Vertices \X Vertices \X EdgeVals
Key(e)   == (e[1] * MaxVertex + e[2]) * (MaxEdgeVal + 1) + e[3]
\* the edge lists of at most n edges, each listed in one order
EdgeLists(n) == {q \in UNION {[1..l -> Triples] : l \in 0..n} :
                    \A i \in 1..(Len(q) - 1) : Key(q[i]) <= Key(q[i + 1])}
\* the batches a caller hands in
Batches  == EdgeLists(MaxBatch) \ {<<>>}

Rev(e) == <<e[2], e[1], e[3]>>

RECURSIVE SeqToBag(_)
\* the bag of the elements of a sequence
SeqToBag(q) ==
    IF q = <<>> THEN EmptyBag ELSE SetToBag({Head(q)}) (+) SeqToBag(Tail(q))

RECURSIVE MapBag(_, _)
\* the bag of the reverses of the first k edges of q
MapBag(q, k) ==
    IF k = 0 THEN EmptyBag ELSE SetToBag({Rev(q[k])}) (+) MapBag(q, k - 1)

\* dynamicGraph.InsertEdgesBatch(d_edges, d_values, batch_size,
\* double_batch_edges): the structure takes the first k edges it is shown
\* (all of them unless it runs out of memory), each with its reverse when
\* double_batch_edges; duplicate entries are kept
GraphInsert(graph, seen, k, double_batch_edges) ==
    graph (+) SeqToBag(SubSeq(seen, 1, k))
          (+) (IF double_batch_edges THEN MapBag(seen, k) ELSE EmptyBag)

RECURSIVE NodesAfter(_, _, _)
\* the structure's node count once it holds the first k edges of seen
NodesAfter(n, seen, k) ==
    IF k = 0 THEN n
    ELSE LET top == IF seen[k][1] > seen[k][2] THEN seen[k][1] ELSE seen[k][2]
             rest == NodesAfter(n, seen, k - 1)
         IN  IF top + 1 > rest THEN top + 1 ELSE rest

\* what a buffer that was never filled may hold
StaleEdge == <<MaxVertex - 1, MaxVertex - 1, MaxEdgeVal>>

\* what the structure finds behind the device pointers: the batch when both
\* buffers were moved; when a move failed, nothing it can read or whatever
\* the memory held
DeviceView(batch, eok, vok) ==
    IF eok /\ vok THEN {batch} ELSE {<<>>, <<StaleEdge>>}

\* Dyn<..., true, true>::InsertEdgesBatch(edges, vals, batchSize) handing
\* is_directed itself to the structure as double_batch_edges
InsertEdgesBatch_PassesDirected(batch, eok, vok, serr) ==
    /\ store
    /\ dyn_calls < MaxDynCalls
    /\ \E seen \in DeviceView(batch, eok, vok) :
       \E k \in (IF serr THEN 0..(Len(seen) - 1) ELSE {Len(seen)}) :
          /\ dynamicGraph' = GraphInsert(dynamicGraph, seen, k, is_directed)
          /\ dyn_nodes' = NodesAfter(dyn_nodes, seen, k)
    /\ edges_dev' = (edges_dev \/ eok)
    /\ vals_dev'  = (vals_dev \/ vok)
    /\ given' = given (+) SeqToBag([i \in 1..Len(batch) |->
                                       [e |-> batch[i], sym |-> ~is_directed]])
    /\ dyn_call' = [op |-> "InsertEdgesBatch", eok |-> eok, vok |-> vok,
                    serr |-> serr]
    /\ dyn_retval' = cudaSuccess
    /\ dyn_calls' = dyn_calls + 1
    /\ dyn_faults' = IF eok /\ vok /\ ~serr THEN dyn_faults ELSE dyn_faults + 1
    /\ UNCHANGED <<is_directed, csr_in, csr_out, store>>
    /\ UNCHANGED pvars

\* Dyn<..., true, true>::InsertEdgesBatch(edges, vals, batchSize)
InsertEdgesBatch(batch, eok, vok, serr) ==
    /\ store
    /\ dyn_calls < MaxDynCalls
    /\ \E seen \in DeviceView(batch, eok, vok) :
       \E k \in (IF serr THEN 0..(Len(seen) - 1) ELSE {Len(seen)}) :
          /\ dynamicGraph' = GraphInsert(dynamicGraph, seen, k, ~is_directed)
          /\ dyn_nodes' = NodesAfter(dyn_nodes, seen, k)
    /\ edges_dev' = (edges_dev \/ eok)
    /\ vals_dev'  = (vals_dev \/ vok)
    /\ given' = given (+) SeqToBag([i \in 1..Len(batch) |->
                                       [e |-> batch[i], sym |-> ~is_directed]])
    /\ dyn_call' = [op |-> "InsertEdgesBatch", eok |-> eok, vok |-> vok,
                    serr |-> serr]
    /\ dyn_retval' = cudaSuccess
    /\ dyn_calls' = dyn_calls + 1
    /\ dyn_faults' = IF eok /\ vok /\ ~serr THEN dyn_faults ELSE dyn_faults + 1
    /\ UNCHANGED <<is_directed, csr_in, csr_out, store>>
    /\ UNCHANGED pvars


\* the suboperation of an InsertEdgesBatch call that fails, if any
DynFaults ==
    IF dyn_faults < MaxFaults
    THEN {"none", "edges.Move", "vals.Move", "dynamicGraph"} ELSE {"none"}

\* position of an edge in the structure's output: rows in ascending order,
\* the edges of a row in descending order of destination and value
OutKey(e) ==
    e[1] * (MaxVertex * (MaxEdgeVal + 1))
    + (MaxVertex * (MaxEdgeVal + 1) - 1 - (e[2] * (MaxEdgeVal + 1) + e[3]))

RECURSIVE BagToSeq(_)
\* the edges of a bag listed in the structure's output order
BagToSeq(b) ==
    IF BagToSet(b) = {} THEN <<>>
    ELSE LET e == CHOOSE x \in BagToSet(b) :
                      \A y \in BagToSet(b) : OutKey(x) <= OutKey(y)
         IN  <<e>> \o BagToSeq(b (-) SetToBag({e}))

\* CSR row offsets of the edge list q over n nodes: entry u + 1 is the
\* number of edges whose source is below u
RowOffsets(q, n) ==
    [u \in 1..(n + 1) |-> Cardinality({k \in 1..Len(q) : q[k][1] < u - 1})]

\* the StaticGraph (CSR) of the row-ordered edge list q over n nodes
StaticGraph(q, n, d) ==
    [directed       |-> d,
     nodes          |-> n,
     edges          |-> Len(q),
     row_offsets    |-> RowOffsets(q, n),
     column_indices |-> [k \in 1..Len(q) |-> q[k][2]],
     edge_values    |-> [k \in 1..Len(q) |-> q[k][3]]]

\* the caller's StaticGraphs: the directed flag, the node count and the
\* adjacency, which the wrapper does not check against the flag
CsrGraphs ==
    UNION {{StaticGraph(q, n, d) :
               d \in BOOLEAN,
               q \in {b \in EdgeLists(MaxCsrEdges) :
                         /\ \A k \in 1..Len(b) : b[k][1] < n /\ b[k][2] < n}} :
           n \in 1..MaxVertex}

\* the row that position k of the column array belongs to
RowOf(ro, n, k) ==
    CHOOSE u \in 0..(n - 1) : ro[u + 1] < k /\ k <= ro[u + 2]

\* the (source, destination, value) triples of CSR arrays, as a bag
TriplesOf(ro, ci, ev, n) ==
    SeqToBag([k \in 1..Len(ci) |-> <<RowOf(ro, n, k), ci[k], ev[k]>>])

\* the triples of a StaticGraph
Adj(csr) ==
    TriplesOf(csr.row_offsets, csr.column_indices, csr.edge_values, csr.nodes)

\* bag of edges the last FromCsr built the structure from
base == IF csr_in.built THEN Adj(csr_in.g) ELSE EmptyBag

DynReturn(op) ==
    /\ dyn_call' = [op |-> op, eok |-> TRUE, vok |-> TRUE, serr |-> FALSE]
    /\ dyn_retval' = cudaSuccess
    /\ dyn_calls' = dyn_calls + 1
    /\ UNCHANGED <<dyn_faults, store, pvars>>

\* dynamicGraph.BulkBuildFromCsr(row_offsets, column_indices, edge_values,
\* nodes, directed, node_values): the structure holds the edges the arrays
\* list, as listed
BulkBuildFromCsr(ro, ci, ev, n) == TriplesOf(ro, ci, ev, n)

\* dynamicGraph.ToCsr(row_offsets, column_indices, edge_values, nodes,
\* edges, node_values): the structure's edges written into the caller's
\* arrays, which the caller sized to the structure
GraphToCsr(graph, n, out) ==
    StaticGraph(BagToSeq(graph), n, out.directed)

\* Dyn<..., true, true>::FromCsr(csr, target, stream, quiet) handing the
\* column array to the structure where the edge values belong
FromCsr_ValuesFromColumns(csr) ==
    /\ store
    /\ dyn_calls < MaxDynCalls
    /\ is_directed' = csr.directed
    /\ dynamicGraph' = BulkBuildFromCsr(csr.row_offsets, csr.column_indices,
                                        csr.column_indices, csr.nodes)
    /\ dyn_nodes' = csr.nodes
    /\ csr_in' = [built |-> TRUE, g |-> csr]
    /\ given' = EmptyBag
    /\ DynReturn("FromCsr")
    /\ UNCHANGED <<edges_dev, vals_dev, csr_out>>

\* Dyn<..., true, true>::FromCsr(csr, target, stream, quiet)
FromCsr(csr) ==
    /\ store
    /\ dyn_calls < MaxDynCalls
    /\ is_directed' = csr.directed
    /\ dynamicGraph' = BulkBuildFromCsr(csr.row_offsets, csr.column_indices,
                                        csr.edge_values, csr.nodes)
    /\ dyn_nodes' = csr.nodes
    /\ csr_in' = [built |-> TRUE, g |-> csr]
    /\ given' = EmptyBag
    /\ DynReturn("FromCsr")
    /\ UNCHANGED <<edges_dev, vals_dev, csr_out>>

\* Dyn<..., true, true>::ToCsr(csr, target, stream, quiet), csr being the
\* caller's csr_out with its arrays device-resident
ToCsr ==
    /\ store
    /\ dyn_calls < MaxDynCalls
    /\ csr_out' = GraphToCsr(dynamicGraph, dyn_nodes, csr_out)
    /\ DynReturn("ToCsr")
    /\ UNCHANGED <<is_directed, dynamicGraph, dyn_nodes, edges_dev, vals_dev,
                   given, csr_in>>

\* Dyn<..., true, true>::FromCsrAndCoo(graph_in, target, stream, quiet)
FromCsrAndCoo ==
    /\ store
    /\ dyn_calls < MaxDynCalls
    /\ DynReturn("FromCsrAndCoo")
    /\ UNCHANGED <<is_directed, dynamicGraph, dyn_nodes, edges_dev, vals_dev,
                   given, csr_in, csr_out>>

\* Dyn<..., false, true>::InsertEdgesBatch taking the buffers by reference
\* and moving them to the device
NoStoreInsertEdgesBatch_Moves(batch) ==
    /\ ~store
    /\ dyn_calls < MaxDynCalls
    /\ DynReturn("InsertEdgesBatch")
    /\ edges_dev' = TRUE
    /\ vals_dev' = TRUE
    /\ UNCHANGED <<is_directed, dynamicGraph, dyn_nodes, given, csr_in, csr_out>>

\* Dyn<..., false, true>::InsertEdgesBatch(src, vals, batchSize, target):
\* the buffers are taken by value and nothing is done with them
NoStoreInsertEdgesBatch(batch) ==
    /\ ~store
    /\ dyn_calls < MaxDynCalls
    /\ DynReturn("InsertEdgesBatch")
    /\ UNCHANGED <<is_directed, dynamicGraph, dyn_nodes, edges_dev, vals_dev,
                   given, csr_in, csr_out>>

\* Dyn<..., false, true>::FromCsr(csr, target, stream, quiet)
NoStoreFromCsr(csr) ==
    /\ ~store
    /\ dyn_calls < MaxDynCalls
    /\ DynReturn("FromCsr")
    /\ UNCHANGED <<is_directed, dynamicGraph, dyn_nodes, edges_dev, vals_dev,
                   given, csr_in, csr_out>>

\* Dyn<..., false, true>::FromCsrAndCoo(graph_in, target, stream, quiet)
NoStoreFromCsrAndCoo ==
    /\ ~store
    /\ dyn_calls < MaxDynCalls
    /\ DynReturn("FromCsrAndCoo")
    /\ UNCHANGED <<is_directed, dynamicGraph, dyn_nodes, edges_dev, vals_dev,
                   given, csr_in, csr_out>>

\* Dyn<..., false, true>::ToCsr(csr, target, stream, quiet)
NoStoreToCsr ==
    /\ ~store
    /\ dyn_calls < MaxDynCalls
    /\ DynReturn("ToCsr")
    /\ UNCHANGED <<is_directed, dynamicGraph, dyn_nodes, edges_dev, vals_dev,
                   given, csr_in, csr_out>>

\* Dyn<..., false, true>::Release(target)
NoStoreRelease(target) ==
    /\ ~store
    /\ dyn_calls < MaxDynCalls
    /\ DynReturn("Release")
    /\ UNCHANGED <<is_directed, dynamicGraph, dyn_nodes, edges_dev, vals_dev,
                   given, csr_in, csr_out>>

\* a Dyn before its first call, with the caller's buffers on the host
NewDyn ==
    /\ is_directed \in BOOLEAN
    /\ dynamicGraph = EmptyBag
    /\ dyn_nodes = 0
    /\ store \in BOOLEAN
    /\ edges_dev = FALSE
    /\ vals_dev = FALSE
    /\ given = EmptyBag
    /\ csr_in = [built |-> FALSE, g |-> StaticGraph(<<>>, 0, TRUE)]
    /\ csr_out = StaticGraph(<<>>, 0, TRUE)
    /\ dyn_call = [op |-> "new", eok |-> TRUE, vok |-> TRUE, serr |-> FALSE]
    /\ dyn_retval = cudaSuccess
    /\ dyn_calls = 0
    /\ dyn_faults = 0

\* the Dyn object no call is made on
DynIdle == NewDyn /\ is_directed /\ store

\* the Problem no call is made on
ProblemIdle == NewProblem /\ num_gpus = 1 /\ org_nodes = 1 /\ junk = 0

NextDyn ==
    \/ \E batch \in Batches, fail \in DynFaults :
          InsertEdgesBatch(batch, fail # "edges.Move", fail # "vals.Move",
                           fail = "dynamicGraph")
    \/ \E csr \in CsrGraphs : FromCsr(csr)
    \/ ToCsr
    \/ FromCsrAndCoo
    \/ \E batch \in Batches : NoStoreInsertEdgesBatch(batch)
    \/ \E csr \in CsrGraphs : NoStoreFromCsr(csr)
    \/ NoStoreFromCsrAndCoo
    \/ NoStoreToCsr
    \/ \E target \in Targets : NoStoreRelease(target)

InitProblem == NewProblem /\ DynIdle
InitDyn     == NewDyn /\ ProblemIdle

SpecProblem == InitProblem /\ [][NextProblem]_vars
SpecDyn     == InitDyn /\ [][NextDyn]_vars

\* ------------------------------------------------------ properties of Dyn
\* copies of edge t a snapshot must hold: those the structure was built
\* from, those handed to InsertEdgesBatch, and the reverses of those handed
\* in while the graph was undirected
ExpectedCopies(t) ==
    CopiesIn(t, base)
    + CopiesIn([e |-> t, sym |-> TRUE], given)
    + CopiesIn([e |-> t, sym |-> FALSE], given)
    + CopiesIn([e |-> Rev(t), sym |-> TRUE], given)

\* C1: after InsertEdgesBatch calls that returned, the snapshot ToCsr takes
\* holds every inserted edge (u,v) with its value, and (v,u) with the same
\* value when the graph was undirected, and no other copy: for each edge it
\* holds exactly the copies the calls account for.
C1_InsertedEdgesInSnapshot ==
    dyn_call.op = "ToCsr" =>
        \A t \in Triples : CopiesIn(t, Adj(csr_out)) = ExpectedCopies(t)

\* C7: an InsertEdgesBatch call in which a buffer could not be made
\* device-resident, or in which the structure reported an error, does not
\* return cudaSuccess.
C7_InsertFailureReported ==
    (dyn_call.op = "InsertEdgesBatch"
        /\ ~(dyn_call.eok /\ dyn_call.vok /\ ~dyn_call.serr))
    => dyn_retval # cudaSuccess

\* -------------------------------------------------- properties of Problem
\* the last call was op, stayed in defined behaviour and returned st
Returned(op) ==
    last_call.op = op /\ ~last_call.ub /\ ~crashed

\* C2: when Problem::Reset returns cudaSuccess, the reset work of every
\* accelerator is complete: no slice has a zero fill still queued.
C2_ResetWorkComplete ==
    (Returned("Reset") /\ retval = cudaSuccess) =>
        \A i \in Gpus : pending[i] = 0

\* slice i is a live, initialized DataSlice bound to accelerator gpu_idx[i]
LiveSlice(i) ==
    /\ data_slices[i].h = "alloc"
    /\ data_slices[i].elem.sub = i
    /\ data_slices[i].elem.gpu_idx = gpu_idx[i]

\* C3: in every state a caller can observe, data_slices is NULL or holds
\* exactly num_gpus entries, each a live initialized DataSlice bound to
\* gpu_idx[i].
C3_SlicesNullOrLive ==
    ~crashed =>
        \/ data_slices = NULL
        \/ /\ DOMAIN data_slices = Gpus
           /\ \A i \in Gpus : LiveSlice(i)

\* C5: the data_slices array is freed only by a Release whose target
\* includes the host and only when no accelerator's slice still has a
\* device-resident shadow.
C5_FreedOnlyWithoutShadows ==
    deleted.done => ("H" \in last_call.target /\ deleted.shadows = {})

\* the calls of the Problem and DataSlice interface
ApiCalls == {"Init", "Reset", "Extract", "Release", "DataSlice::Release"}

kept == <<data_slices, pending, sub_graphs, org_graph, h_subgraphs>>

\* slice i exists and holds nothing: no array at either residency, no stream
ReleasedSlice(i) ==
    /\ data_slices # NULL
    /\ data_slices[i].h = "alloc"
    /\ data_slices[i].elem.subgraphs.h = "none"
    /\ data_slices[i].elem.subgraphs.d = "none"
    /\ ~data_slices[i].elem.stream

\* this step is a call of op
Calls(op) == last_call'.op = op /\ calls' = calls + 1

\* Problem::Release on a Problem whose data_slices is NULL attempts nothing,
\* frees nothing, changes nothing and returns cudaSuccess
ReleaseOfNullIsNoOp ==
    (data_slices = NULL /\ Calls("Release")) =>
        /\ retval' = cudaSuccess /\ ~crashed'
        /\ log' = <<>> /\ freed' = 0
        /\ UNCHANGED <<kept, active_device>>

Succeeded(op, target) ==
    /\ last_call.op = op /\ last_call.target = target
    /\ ~last_call.ub /\ ~crashed
    /\ retval = cudaSuccess

\* the result array of slice i
Subgraphs(i) == data_slices[i].elem.subgraphs

\* its host side: the caller's buffer when the pointer was set to it
HostView(i) ==
    IF Subgraphs(i).h = "set" THEN h_subgraphs ELSE Subgraphs(i).hv

\* its device side once the work queued on the slice's stream has run
Settled(i) ==
    IF pending[i] = 0 THEN Subgraphs(i).dv
    ELSE Overwrite(Subgraphs(i).dv, Zeros(pending[i]), pending[i])

\* slice i's array has n entries at every residency of target, all zero,
\* and no fill is outstanding
ZeroNow(i, target, n) ==
    /\ Subgraphs(i).size = n
    /\ "H" \in target => Subgraphs(i).h # "none" /\ HostView(i) = Zeros(n)
    /\ "D" \in target => /\ Subgraphs(i).d = "alloc"
                          /\ Subgraphs(i).dv = Zeros(n)
                          /\ pending[i] = 0

\* the same in stream order: the device side is zero once the queued fill
\* has run
ZeroInOrder(i, target, n) ==
    /\ Subgraphs(i).size = n
    /\ "H" \in target => Subgraphs(i).h # "none" /\ HostView(i) = Zeros(n)
    /\ "D" \in target => Subgraphs(i).d = "alloc" /\ Settled(i) = Zeros(n)

\* the first n entries of q are zero
ZerosUpTo(q, n) == Len(q) >= n /\ \A k \in 1..n : q[k] = 0

\* slice i's array has at least n entries and the first n are zero at every
\* residency of target, the device side read in stream order
ZeroPrefix(i, target, n) ==
    /\ Subgraphs(i).size >= n
    /\ "H" \in target => Subgraphs(i).h # "none" /\ ZerosUpTo(HostView(i), n)
    /\ "D" \in target => Subgraphs(i).d = "alloc" /\ ZerosUpTo(Settled(i), n)

\* C8: with one accelerator, an Init that succeeded followed by a Reset for
\* the same target that succeeds leaves subgraphs with exactly as many
\* entries as the subgraph has nodes, all of them zero, at the target.
C8_InitThenResetZero ==
    [][\A target \in Targets :
          (num_gpus = 1 /\ Succeeded("Init", target)
              /\ Calls("Reset") /\ Succeeded("Reset", target)')
          => ZeroNow(1, target, org_nodes)']_vars

\* on one accelerator whose fresh memory is not zero, Init(DEVICE) and then
\* Reset(DEVICE) were the only calls, both succeeded, and the largest
\* array is all zero on the device
C8_Witness ==
    /\ num_gpus = 1 /\ junk # 0 /\ org_nodes = MaxNodes
    /\ calls = 2 /\ faults = 0
    /\ Succeeded("Reset", DEVICE)
    /\ data_slices[1].elem.stream
    /\ Subgraphs(1).h = "none"
    /\ ZeroNow(1, DEVICE, org_nodes)

C10_ExtractAgree ==
    [][(num_gpus = 1 /\ Succeeded("Extract", DEVICE)
           /\ Calls("Extract") /\ Succeeded("Extract", HOST)')
       => /\ h_subgraphs' = h_subgraphs
          /\ \A k \in 1..org_nodes :
                h_subgraphs'[k] = Subgraphs(1).dv'[k]]_vars

\* an Extract to the host target succeeded on an array whose host side is
\* the caller's buffer, as Extract from the device leaves it; the buffer
\* holds the algorithm's results, not all zero, as the device array does
C10_Witness ==
    /\ num_gpus = 1 /\ junk = 0 /\ org_nodes = MaxNodes
    /\ Succeeded("Extract", HOST)
    /\ Len(log) = 1
    /\ Subgraphs(1).h = "set"
    /\ Subgraphs(1).d = "alloc"
    /\ h_subgraphs = Subgraphs(1).dv
    /\ \E k \in 1..org_nodes : h_subgraphs[k] # 0

\* ------------------------------------- further properties of Dyn
\* this step is a call of op on the Dyn
DynCalls(op) == dyn_call'.op = op /\ dyn_calls' = dyn_calls + 1

observable == <<is_directed, dynamicGraph, dyn_nodes, edges_dev, vals_dev,
                csr_in, csr_out>>

\* C12: on the store-disabled Dyn every call returns cudaSuccess and
\* changes nothing: not the residency of the caller's buffers, not the
\* caller's StaticGraph, not the object.
C12_NoStoreNoOp ==
    [][~store => (dyn_retval' = cudaSuccess /\ UNCHANGED observable)]_vars

\* the store-disabled Dyn took as many calls as a Dyn may take, the last
\* an InsertEdgesBatch, and the caller's buffers are still on the host
C12_Witness ==
    /\ ~store
    /\ dyn_calls = MaxDynCalls
    /\ dyn_call.op = "InsertEdgesBatch"
    /\ dyn_retval = cudaSuccess
    /\ ~edges_dev /\ ~vals_dev

\* copies of edge t handed to the InsertEdgesBatch call of this step
HandedIn(t) ==
    (CopiesIn([e |-> t, sym |-> TRUE], given')
        + CopiesIn([e |-> t, sym |-> FALSE], given'))
    - (CopiesIn([e |-> t, sym |-> TRUE], given)
        + CopiesIn([e |-> t, sym |-> FALSE], given))

\* C17: FromCsr(g) sets is_directed to g.directed whatever it was and
\* whatever g's adjacency is; an InsertEdgesBatch after it, whose
\* suboperations succeed, adds each edge handed in, and its reverse if and
\* only if the g of the most recent FromCsr was undirected.
C17_DirectednessAdopted ==
    [][/\ (store /\ DynCalls("FromCsr")) =>
             (csr_in'.built /\ is_directed' = csr_in'.g.directed)
       /\ (store /\ csr_in.built /\ DynCalls("InsertEdgesBatch")
              /\ dyn_call'.eok /\ dyn_call'.vok /\ ~dyn_call'.serr) =>
             \A t \in Triples :
                 CopiesIn(t, dynamicGraph') - CopiesIn(t, dynamicGraph)
                 = HandedIn(t)
                   + (IF csr_in.g.directed THEN 0 ELSE HandedIn(Rev(t)))]_vars

\* after a FromCsr of an undirected graph whose adjacency is not symmetric,
\* an InsertEdgesBatch added an edge and its reverse
C17_Witness ==
    /\ store /\ csr_in.built /\ ~csr_in.g.directed /\ ~is_directed
    /\ csr_in.g.edges = 1
    /\ dyn_call.op = "InsertEdgesBatch"
    /\ dyn_call.eok /\ dyn_call.vok /\ ~dyn_call.serr
    /\ \E t \in Triples :
          /\ t[1] # t[2]
          /\ CopiesIn([e |-> t, sym |-> TRUE], given) = 1
          /\ CopiesIn(t, Adj(csr_in.g)) = 0
          /\ CopiesIn(Rev(t), Adj(csr_in.g)) = 0
          /\ CopiesIn(t, dynamicGraph) = 1
          /\ CopiesIn(Rev(t), dynamicGraph) = 1

\* C18: an InsertEdgesBatch on the Dyn with the store leaves both of the
\* caller's buffers device-resident; on the store-disabled Dyn it leaves
\* their residency as it was.
C18_BuffersDeviceResident ==
    [][DynCalls("InsertEdgesBatch") =>
          IF store THEN edges_dev' /\ vals_dev'
          ELSE UNCHANGED <<edges_dev, vals_dev>>]_vars

\* ---------------------------------- further properties of Problem
\* C13: every allocation, transfer, fill and free on device memory that
\* Init, Reset, Release or DataSlice::Release performed for slice i ran
\* while gpu_idx[i] was the current device.
C13_DeviceContext ==
    (last_call.op \in {"Init", "Reset", "Release", "DataSlice::Release"})
    => stray = {}

\* slice i's result array holds no memory at a residency of target
NotAllocated(i, target) ==
    /\ "H" \in target => Subgraphs(i).h # "alloc"
    /\ "D" \in target => Subgraphs(i).d # "alloc"

\* C14: after a Problem::Release(target) that returned cudaSuccess no
\* slice's subgraphs array is allocated at a residency of target, and after
\* Release(LOCATION_ALL) no slice holds anything on the host or the device.
C14_ReleaseFreesArrays ==
    \A target \in Targets :
        Succeeded("Release", target) =>
            \/ data_slices = NULL
            \/ /\ target # LOCATION_ALL
               /\ \A i \in Gpus : NotAllocated(i, target)

\* C15: Reset and Extract on a Problem whose data_slices is NULL (never
\* initialized, BaseProblem::Init failed, or fully released) return a
\* failure status and touch no slice: the call stays in defined behaviour
\* and data_slices, the pending fills and the caller's buffer are as they
\* were.  (With data_slices NULL there is no DataSlice to call.)
C15_NullSlicesRejected ==
    [][(data_slices = NULL /\ (Calls("Reset") \/ Calls("Extract")))
       => /\ ~last_call'.ub /\ ~crashed'
          /\ retval' \in ErrCodes
          /\ UNCHANGED <<data_slices, pending, h_subgraphs>>]_vars

\* what Extract does on a Problem of several accelerators: nothing
ExtractIsNoOp ==
    /\ ~last_call'.ub /\ ~crashed'
    /\ retval' = cudaSuccess
    /\ log' = <<>>
    /\ UNCHANGED <<active_device, data_slices, pending, h_subgraphs>>

ResetSucceeds(target) == Calls("Reset") /\ Succeeded("Reset", target)'

\* C16 (as claimed): after every Reset that succeeds, also when the
\* subgraph's node count grew or shrank since the array was allocated, each
\* slice's array has exactly as many entries as its subgraph has nodes,
\* all of them zero.
C16_LengthIsNodeCount ==
    [][\A target \in Targets :
          ResetSucceeds(target) =>
              \A i \in Gpus : ZeroInOrder(i, target, sub_graphs[i].nodes)']_vars

\* the entries past the first n of q are those of p
SameBeyond(p, q, n) ==
    \A k \in (n + 1)..Len(p) : k <= Len(q) /\ q[k] = p[k]

\* C16 (amended): after every Reset that succeeds each slice's array has
\* the larger of its former length and the subgraph's current node count,
\* its first node-count entries are zero at the target, and the entries
\* past them of an array that was long enough are left as they were.
C16_ResetFitsNodeCount ==
    [][\A target \in Targets :
          ResetSucceeds(target) =>
              \A i \in Gpus :
                 LET n == sub_graphs[i].nodes
                     a == Subgraphs(i)
                 IN  /\ Subgraphs(i).size' = IF a.size < n THEN n ELSE a.size
                     /\ ZeroPrefix(i, target, n)'
                     /\ ("H" \in target /\ a.h # "none" /\ a.size >= n)
                           => SameBeyond(HostView(i), HostView(i)', n)
                     /\ ("D" \in target /\ a.d = "alloc" /\ a.size >= n)
                           => SameBeyond(Settled(i), Settled(i)', n)]_vars

\* a Reset succeeded on an array allocated for more nodes than the subgraph
\* has now: the array kept its length, the entry of the node that is left
\* is zero and the entry past it still holds what the memory held
C16_Witness ==
    /\ num_gpus = 1 /\ junk # 0
    /\ Succeeded("Reset", DEVICE)
    /\ sub_graphs[1].nodes = 1
    /\ Subgraphs(1).size = MaxNodes
    /\ pending[1] = 0
    /\ Subgraphs(1).dv[1] = 0
    /\ Subgraphs(1).dv[MaxNodes] = junk

====
